---------------------------- MODULE Spec2Model ----------------------------
(***************************************************************************)
(* Behaviour-transition-graph panel of the frontend:                       *)
(*   - SankeyChart.vue   (src/unnamed/part_000): the sankeyData computed   *)
(*     (sort, truncate, greedy cycle-avoiding pass, node filter) and the   *)
(*     animation-frame render scheduler;                                   *)
(*   - CustomerNetworkPanel.vue: selection state, fetchGraph, view toggle. *)
(*   - NetworkGraph.vue: the zoom toolbar, the camera and the teardown;    *)
(*   - colorFromId of SankeyChart.vue and of NetworkGraph.vue.             *)
(* The specifications share the variables: Spec (the sankeyData            *)
(* computation), PanelSpec (the panel), ChartSpec (the scheduler),         *)
(* NetSpec (the 3-D network) and ColorSpec (the identity colour);          *)
(* LiveSpec and PanelLiveSpec add the fairness under which the computed    *)
(* returns and every issued request settles.                               *)
(***************************************************************************)
EXTENDS Integers, Sequences, FiniteSets, TLC

VARIABLES
    \* ---- SankeyChart.vue: props and the sankeyData computation ----
    nodes,          \* props.nodes
    links,          \* props.links
    budget,         \* the K of slice(0, K); MAX_LINKS in the source
    pc,             \* position inside the computed: "idle", "loop", "done"
    sortedLinks,    \* const sortedLinks
    idx,            \* position of the for..of loop in sortedLinks (1-based)
    adjacency,      \* const adjacency: id -> insertion-ordered set of ids
    acyclicLinks,   \* const acyclicLinks
    out,            \* value returned by the computed
    history,        \* values returned by the completed evaluations, in order
    \* ---- CustomerNetworkPanel.vue ----
    segPc,          \* loadSegments: "unmounted", "pending", "done"
    segments,       \* ids of the options of the segment select
    selectedSegment,
    dateRange,      \* the date picker's value: a range, or null once cleared
    limit,
    minEdge,
    loading,
    error,
    graph,
    chartView,
    inflight,       \* fetchGraph calls suspended at their await
    issued,         \* number of fetchGraph calls that reached fetch()
    settled,        \* outcome of every finished fetchGraph call, by request
    \* ---- SankeyChart.vue: scheduler ----
    mounted,        \* "no", "yes", "gone"
    observing,      \* the ResizeObserver is connected
    raf,            \* let raf: handle of the last requestAnimationFrame
    frameQueue,     \* the browser's pending animation-frame callbacks
    nextHandle,     \* next handle requestAnimationFrame returns
    clientWidth,    \* chartRef.value.clientWidth
    dataVersion,    \* identity of the props handed to the chart
    events,         \* scheduleRender calls since the last tick
    lastTick,       \* what the last tick ran
    renders,        \* render executions in total
    \* ---- NetworkGraph.vue ----
    netMounted,     \* "no", "yes", "gone"
    fgInstance,     \* fgInstance.value: NULL or the instance ForceGraph3D() returned
    zoomValue,      \* zoomValue.value, in tenths
    camera,         \* distance last given to cameraPosition({ z }), a fraction n/d
    lastOp,         \* the last toolbar operation, with the zoom and camera around it
    netProps,       \* props.nodes and props.links of NetworkGraph.vue
    simLog,         \* the arguments of the fgInstance.graphData(...) calls, in order
    \* ---- colorFromId of both adapters ----
    colorId,        \* the id, as its UTF-16 code units
    sankeyColor,    \* what the calls of SankeyChart.vue's colorFromId(id) returned
    networkColor    \* what the calls of NetworkGraph.vue's colorFromId(id) returned

sanVars   == <<nodes, links, budget, pc, sortedLinks, idx, adjacency,
               acyclicLinks, out, history>>
panelVars == <<segPc, segments, selectedSegment, dateRange, limit, minEdge,
               loading, error, graph, chartView, inflight, issued, settled>>
chartVars == <<mounted, observing, raf, frameQueue, nextHandle, clientWidth,
               dataVersion, events, lastTick, renders>>
netVars   == <<netMounted, fgInstance, zoomValue, camera, lastOp, netProps, simLog>>
colorVars == <<colorId, sankeyColor, networkColor>>
vars      == <<sanVars, panelVars, chartVars, netVars, colorVars>>

NULL == "null"

Min(a, b) == IF a < b THEN a ELSE b
Max(a, b) == IF a > b THEN a ELSE b

(***************************************************************************)
(* Bounds of the model.                                                    *)
(***************************************************************************)
MaxLen    == 3      \* longest props.links drawn
MaxBudget == 2      \* small budgets drawn beside MAX_LINKS
MaxRuns   == 2      \* evaluations of the computed on the same props

MAX_LINKS == 200

Ids       == {"A", "B", "C"}

Link(s, t, v) == [source |-> s, target |-> t, value |-> v]
Node(i)       == [id |-> i]

\* The links drawn: every ordered pair of distinct ids, A->B and B->A with both
\* values (parallel links, and a cycle whose order the sort decides), two
\* self-loops and two links with an empty endpoint.
LinkUniverse ==
    { Link("A", "B", 2), Link("B", "C", 2), Link("C", "A", 1),
      Link("A", "C", 1), Link("B", "A", 1), Link("C", "B", 2),
      Link("A", "B", 1), Link("B", "A", 2),
      Link("A", "A", 2), Link("C", "C", 1),
      Link("", "A", 2),  Link("B", "", 1) }

RECURSIVE SeqsUpTo(_, _)
SeqsUpTo(S, n) ==
    IF n = 0 THEN {<<>>}
    ELSE LET shorter == SeqsUpTo(S, n - 1)
         IN shorter \cup {Append(q, x) : q \in {r \in shorter : Len(r) = n - 1}, x \in S}

\* props.nodes: all the ids, or a list that lacks "C" (links to C then dangle).
NodeInputs == { <<Node("A"), Node("B"), Node("C")>>, <<Node("B"), Node("A")>> }

Budgets == (1..MaxBudget) \cup {MAX_LINKS}

\* The worked scenario of the specification, section 8.
Scenario ==
    [nodes  |-> <<Node("A"), Node("B"), Node("C")>>,
     links  |-> <<Link("A", "B", 10), Link("B", "C", 8),
                  Link("C", "A", 5), Link("A", "C", 3)>>,
     budget |-> 10]

Inputs ==
    {[nodes |-> n, links |-> l, budget |-> k] :
        n \in NodeInputs, l \in SeqsUpTo(LinkUniverse, MaxLen), k \in Budgets}
        \cup {Scenario}

(***************************************************************************)
(* sankeyData, part_000:32-73                                              *)
(***************************************************************************)
\* [...].sort((a, b) => (b.value || 0) - (a.value || 0)): Array.prototype.sort is
\* stable, so an element goes after every element whose value is not smaller.
RECURSIVE InsertDescTiesFirst(_, _)
InsertDescTiesFirst(sorted, l) ==
    IF sorted = <<>> THEN <<l>>
    ELSE IF Head(sorted).value > l.value
         THEN <<Head(sorted)>> \o InsertDescTiesFirst(Tail(sorted), l)
         ELSE <<l>> \o sorted
RECURSIVE InsertDesc(_, _)
InsertDesc(sorted, l) ==
    IF sorted = <<>> THEN <<l>>
    ELSE IF Head(sorted).value >= l.value
         THEN <<Head(sorted)>> \o InsertDesc(Tail(sorted), l)
         ELSE <<l>> \o sorted

RECURSIVE SortDesc(_)
SortDesc(s) ==
    IF s = <<>> THEN <<>>
    ELSE InsertDesc(SortDesc(SubSeq(s, 1, Len(s) - 1)), s[Len(s)])

\* .slice(0, K)
SliceNoLimit(s, k) == s
SliceOneMore(s, k) == SubSeq(s, 1, Min(k + 1, Len(s)))
Slice(s, k) == SubSeq(s, 1, Min(k, Len(s)))

SortedLinks(ls, k) == Slice(SortDesc(ls), k)

EmptyAdjacency == [i \in Ids |-> <<>>]

InSeq(x, s) == \E i \in 1..Len(s) : s[i] = x

\* the while loop of hasPath: a breadth-first search over adjacency
RECURSIVE Bfs(_, _, _, _)
Bfs(adj, queue, visited, goal) ==
    IF queue = <<>> THEN FALSE
    ELSE LET current == Head(queue)
             rest    == Tail(queue)
         IN IF current = goal THEN TRUE
            ELSE IF current \in visited THEN Bfs(adj, rest, visited, goal)
            ELSE LET seen == visited \cup {current}
                     push == SelectSeq(adj[current], LAMBDA n : n \notin seen)
                 IN Bfs(adj, rest \o push, seen, goal)

\* the nodes hasPath puts into `visited` (line 47), in the order it does
RECURSIVE BfsVisits(_, _, _, _)
BfsVisits(adj, queue, visited, goal) ==
    IF queue = <<>> THEN <<>>
    ELSE LET current == Head(queue)
             rest    == Tail(queue)
         IN IF current = goal THEN <<>>
            ELSE IF current \in visited THEN BfsVisits(adj, rest, visited, goal)
            ELSE LET seen == visited \cup {current}
                     push == SelectSeq(adj[current], LAMBDA n : n \notin seen)
                 IN <<current>> \o BfsVisits(adj, rest \o push, seen, goal)

HasPathVisits(adj, start, goal) ==
    IF start = goal THEN <<>> ELSE BfsVisits(adj, <<start>>, {}, goal)

HasPathDirect(adj, start, goal) ==
    start = goal \/ InSeq(goal, adj[start])
HasPath(adj, start, goal) ==
    IF start = goal THEN TRUE ELSE Bfs(adj, <<start>>, {}, goal)

\* the three `continue` tests of the loop body
SkipsNoPathCheck(adj, l) ==
    \/ l.source = "" \/ l.target = ""
    \/ l.source = l.target
SkipsEndpointsOnly(adj, l) ==
    l.source = "" \/ l.target = ""
SkipsKnownEdge(adj, l) ==
    \/ l.source = "" \/ l.target = ""
    \/ l.source = l.target
    \/ InSeq(l.target, adj[l.source])
    \/ HasPath(adj, l.target, l.source)
Skips(adj, l) ==
    \/ l.source = "" \/ l.target = ""
    \/ l.source = l.target
    \/ HasPath(adj, l.target, l.source)

\* adjacency.get(source)!.add(target): a Set keeps one copy, in insertion order
AddEdgeDropped(adj, s, t) == adj
AddEdge(adj, s, t) ==
    IF InSeq(t, adj[s]) THEN adj ELSE [adj EXCEPT ![s] = Append(@, t)]

\* nodeIds and filteredNodes
NodeIds(ls) == {ls[i].source : i \in 1..Len(ls)} \cup {ls[i].target : i \in 1..Len(ls)}
FilteredNodes(ns, ls) == SelectSeq(ns, LAMBDA n : n.id \in NodeIds(ls))

\* const acyclicLinks: GraphLink[] = [] and const adjacency = new Map(): both are
\* created inside the computed, so every evaluation starts from empty ones
KeepAccumulator(prev) == prev
NewAcyclicLinks(prev) == <<>>

NoOutput == [nodes |-> <<>>, links |-> <<>>]

SanInit(inputs) ==
    /\ \E i \in inputs :
          /\ nodes = i.nodes
          /\ links = i.links
          /\ budget = i.budget
    /\ pc = "idle"
    /\ sortedLinks = <<>>
    /\ idx = 1
    /\ adjacency = EmptyAdjacency
    /\ acyclicLinks = <<>>
    /\ out = NoOutput
    /\ history = <<>>

\* The computed is evaluated (first read, or props replaced by an equal payload):
\* lines 33-37 and 57.
StartRun ==
    /\ pc \in {"idle", "done"}
    /\ Len(history) < MaxRuns
    /\ sortedLinks' = SortedLinks(links, budget)
    /\ adjacency' = EmptyAdjacency
    /\ acyclicLinks' = NewAcyclicLinks(acyclicLinks)
    /\ idx' = 1
    /\ pc' = "loop"
    /\ UNCHANGED <<nodes, links, budget, out, history>>
    /\ UNCHANGED <<panelVars, chartVars, netVars, colorVars>>

\* One iteration of `for (const link of sortedLinks)`, lines 58-67.
LoopStepNoAdvance ==
    /\ pc = "loop"
    /\ idx <= Len(sortedLinks)
    /\ LET link == sortedLinks[idx]
       IN IF Skips(adjacency, link)
          THEN UNCHANGED <<acyclicLinks, adjacency, idx>>
          ELSE /\ acyclicLinks' = Append(acyclicLinks, link)
               /\ adjacency' = AddEdge(adjacency, link.source, link.target)
               /\ idx' = idx + 1
    /\ UNCHANGED <<nodes, links, budget, pc, sortedLinks, out, history>>
    /\ UNCHANGED <<panelVars, chartVars, netVars, colorVars>>
LoopStep ==
    /\ pc = "loop"
    /\ idx <= Len(sortedLinks)
    /\ LET link == sortedLinks[idx]
       IN IF Skips(adjacency, link)
          THEN UNCHANGED <<acyclicLinks, adjacency>>
          ELSE /\ acyclicLinks' = Append(acyclicLinks, link)
               /\ adjacency' = AddEdge(adjacency, link.source, link.target)
    /\ idx' = idx + 1
    /\ UNCHANGED <<nodes, links, budget, pc, sortedLinks, out, history>>
    /\ UNCHANGED <<panelVars, chartVars, netVars, colorVars>>

\* Lines 69-72: the loop is over, the nodes are filtered and the value returned.
Finish ==
    /\ pc = "loop"
    /\ idx > Len(sortedLinks)
    /\ out' = [nodes |-> FilteredNodes(nodes, acyclicLinks), links |-> acyclicLinks]
    /\ history' = Append(history, out')
    /\ pc' = "done"
    /\ UNCHANGED <<nodes, links, budget, sortedLinks, idx, adjacency, acyclicLinks>>
    /\ UNCHANGED <<panelVars, chartVars, netVars, colorVars>>

(***************************************************************************)
(* CustomerNetworkPanel.vue                                                *)
(***************************************************************************)
MaxFetches == 3     \* fetchGraph calls that reach fetch()

\* the segment list the service returns; "new" carries default: true
Segments       == {"new", "repeat"}
DefaultSegment == "new"

\* what a successful response body can be: a graph with links, a graph without
\* any, a body whose links are missing or no array, a body with links whose nodes
\* are missing
BodyKinds == {"links", "empty", "no-links", "no-nodes"}

\* values of the controls: createInitialRange() or a cleared picker; the edge limit
\* and one step of 5 above it; the minimum edge count and one step of 1 above it
DateRanges  == {"initial", NULL}
Limits      == {25, 30}
MinEdges    == {3, 4}

\* graph.value === null
NoGraph == [req |-> 0, segment |-> "", kind |-> "null"]

FetchError    == "fetch-error"
SegmentsError == "segments-error"

PanelInit ==
    /\ segPc = "unmounted"
    /\ segments = {}
    /\ selectedSegment = ""
    /\ dateRange = "initial"
    /\ limit = 25
    /\ minEdge = 3
    /\ loading = FALSE
    /\ error = NULL
    /\ graph = NoGraph
    /\ chartView = "network"
    /\ inflight = {}
    /\ issued = 0
    /\ settled = {}

\* fetchGraph up to its await, lines 170-188
FetchGraphStart ==
    IF selectedSegment' = ""
    THEN UNCHANGED <<loading, error, inflight, issued>>
    ELSE /\ loading' = TRUE
         /\ error' = NULL
         /\ issued' = issued + 1
         /\ inflight' = inflight \cup {[id |-> issued + 1, segment |-> selectedSegment',
                                        limit |-> limit, min_edge_count |-> minEdge,
                                        dates |-> dateRange]}

\* onMounted -> loadSegments up to its await, lines 202-204 and 154-156
Mount ==
    /\ segPc = "unmounted"
    /\ segPc' = "pending"
    /\ UNCHANGED <<segments, selectedSegment, loading, error, graph, chartView, inflight,
                   issued, settled>>
    /\ UNCHANGED <<dateRange, limit, minEdge>>
    /\ UNCHANGED <<sanVars, chartVars, netVars, colorVars>>

\* loadSegments resumes with a list: lines 158-164. A list without entries
\* selects nothing and fetches nothing.
SegmentsLoaded(list) ==
    /\ segPc = "pending"
    /\ segPc' = "done"
    /\ segments' = list
    /\ IF list = {}
       THEN UNCHANGED <<selectedSegment, loading, error, inflight, issued>>
       ELSE /\ selectedSegment' =
                   (IF DefaultSegment \in list THEN DefaultSegment
                    ELSE CHOOSE x \in list : TRUE)
            /\ FetchGraphStart
    /\ UNCHANGED <<graph, chartView, settled>>
    /\ UNCHANGED <<dateRange, limit, minEdge>>
    /\ UNCHANGED <<sanVars, chartVars, netVars, colorVars>>

\* loadSegments' catch, lines 165-167
SegmentsFailed ==
    /\ segPc = "pending"
    /\ segPc' = "done"
    /\ error' = SegmentsError
    /\ UNCHANGED <<segments, selectedSegment, loading, graph, chartView, inflight, issued,
                   settled>>
    /\ UNCHANGED <<dateRange, limit, minEdge>>
    /\ UNCHANGED <<sanVars, chartVars, netVars, colorVars>>

\* el-select: v-model writes selectedSegment, @change calls onSegmentChange
SegmentChange(seg) ==
    /\ segPc = "done"
    /\ seg \in segments
    /\ seg # selectedSegment
    /\ issued < MaxFetches
    /\ selectedSegment' = seg
    /\ FetchGraphStart
    /\ UNCHANGED <<segPc, segments, graph, chartView, settled>>
    /\ UNCHANGED <<dateRange, limit, minEdge>>
    /\ UNCHANGED <<sanVars, chartVars, netVars, colorVars>>

\* the refresh button, line 24; :loading="loading" disables it while loading
Refresh ==
    /\ segPc = "done"
    /\ ~loading
    /\ issued < MaxFetches
    /\ UNCHANGED selectedSegment
    /\ FetchGraphStart
    /\ UNCHANGED <<segPc, segments, graph, chartView, settled>>
    /\ UNCHANGED <<dateRange, limit, minEdge>>
    /\ UNCHANGED <<sanVars, chartVars, netVars, colorVars>>

\* the two buttons of .view-toggle, lines 31 and 38
SetChartViewAndFetch(view) ==
    /\ chartView' = view
    /\ issued < MaxFetches
    /\ UNCHANGED selectedSegment
    /\ FetchGraphStart
    /\ UNCHANGED <<segPc, segments, graph, settled>>
    /\ UNCHANGED <<dateRange, limit, minEdge>>
    /\ UNCHANGED <<sanVars, chartVars, netVars, colorVars>>
SetChartView(view) ==
    /\ chartView' = view
    /\ UNCHANGED <<segPc, segments, selectedSegment, loading, error, graph, inflight,
                   issued, settled>>
    /\ UNCHANGED <<dateRange, limit, minEdge>>
    /\ UNCHANGED <<sanVars, chartVars, netVars, colorVars>>

\* el-date-picker, el-input-number: v-model only, lines 13-23
DateRangeChange(range) ==
    /\ segPc = "done"
    /\ range # dateRange
    /\ dateRange' = range
    /\ UNCHANGED <<segPc, segments, selectedSegment, limit, minEdge, loading, error,
                   graph, chartView, inflight, issued, settled>>
    /\ UNCHANGED <<sanVars, chartVars, netVars, colorVars>>

LimitChange(value) ==
    /\ segPc = "done"
    /\ value # limit
    /\ limit' = value
    /\ UNCHANGED <<segPc, segments, selectedSegment, dateRange, minEdge, loading, error,
                   graph, chartView, inflight, issued, settled>>
    /\ UNCHANGED <<sanVars, chartVars, netVars, colorVars>>

MinEdgeChange(value) ==
    /\ segPc = "done"
    /\ value # minEdge
    /\ minEdge' = value
    /\ UNCHANGED <<segPc, segments, selectedSegment, dateRange, limit, loading, error,
                   graph, chartView, inflight, issued, settled>>
    /\ UNCHANGED <<sanVars, chartVars, netVars, colorVars>>

Body(req, kind) == [req |-> req.id, segment |-> req.segment, kind |-> kind]

\* fetchGraph resumes with an ok response and a parsed body: lines 189-190, 194
FetchOk(req, kind) ==
    /\ req \in inflight
    /\ graph' = Body(req, kind)
    /\ loading' = FALSE
    /\ inflight' = inflight \ {req}
    /\ settled' = settled \cup {[id |-> req.id, outcome |-> "ok", before |-> graph]}
    /\ UNCHANGED <<segPc, segments, selectedSegment, error, chartView, issued>>
    /\ UNCHANGED <<dateRange, limit, minEdge>>
    /\ UNCHANGED <<sanVars, chartVars, netVars, colorVars>>

\* fetch rejects, the response is not ok, or res.json() rejects: lines 191-194
FetchFailClearsGraph(req) ==
    /\ req \in inflight
    /\ error' = FetchError
    /\ graph' = NoGraph
    /\ loading' = FALSE
    /\ inflight' = inflight \ {req}
    /\ settled' = settled \cup {[id |-> req.id, outcome |-> "fail", before |-> graph]}
    /\ UNCHANGED <<segPc, segments, selectedSegment, chartView, issued>>
    /\ UNCHANGED <<dateRange, limit, minEdge>>
    /\ UNCHANGED <<sanVars, chartVars, netVars, colorVars>>
FetchFailKeepsLoading(req) ==
    /\ req \in inflight
    /\ error' = FetchError
    /\ inflight' = inflight \ {req}
    /\ settled' = settled \cup {[id |-> req.id, outcome |-> "fail", before |-> graph]}
    /\ UNCHANGED <<segPc, segments, selectedSegment, graph, chartView, issued, loading>>
    /\ UNCHANGED <<dateRange, limit, minEdge>>
    /\ UNCHANGED <<sanVars, chartVars, netVars, colorVars>>
FetchFail(req) ==
    /\ req \in inflight
    /\ error' = FetchError
    /\ loading' = FALSE
    /\ inflight' = inflight \ {req}
    /\ settled' = settled \cup {[id |-> req.id, outcome |-> "fail", before |-> graph]}
    /\ UNCHANGED <<segPc, segments, selectedSegment, graph, chartView, issued>>
    /\ UNCHANGED <<dateRange, limit, minEdge>>
    /\ UNCHANGED <<sanVars, chartVars, netVars, colorVars>>

\* hasGraph, lines 134-138
LinksIsArray(g) == g.kind \in {"links", "empty", "no-nodes"}
LinksLength(g)  == IF g.kind \in {"links", "no-nodes"} THEN 1 ELSE 0
HasGraph(g) ==
    IF g.kind = "null" \/ ~LinksIsArray(g) THEN FALSE
    ELSE LinksLength(g) > 0

\* the v-if chain of .panel-body, lines 47-93: what the panel mounts
PanelBody ==
    IF error # NULL THEN "error-banner"
    ELSE IF loading THEN "skeleton"
    ELSE IF HasGraph(graph)
         THEN (IF chartView = "network" THEN "NetworkGraph" ELSE "SankeyChart")
         ELSE "el-empty"

Adapters == {"NetworkGraph", "SankeyChart"}

PanelNext ==
    \/ Mount
    \/ \E list \in SUBSET Segments : SegmentsLoaded(list)
    \/ SegmentsFailed
    \/ \E seg \in Segments : SegmentChange(seg)
    \/ Refresh
    \/ \E range \in DateRanges : DateRangeChange(range)
    \/ \E value \in Limits : LimitChange(value)
    \/ \E value \in MinEdges : MinEdgeChange(value)
    \/ \E view \in {"network", "sankey"} : SetChartView(view)
    \/ \E req \in inflight, kind \in BodyKinds : FetchOk(req, kind)
    \/ \E req \in inflight : FetchFail(req)

(***************************************************************************)
(* SankeyChart.vue: scheduleRender, render, the observer and the watcher   *)
(***************************************************************************)
MaxHandles == 4     \* requestAnimationFrame calls
MaxData    == 2     \* props replacements seen by the watcher

FallbackWidth == 800

\* clientWidth values; 0 is a container that has no layout yet
Widths == {0, 300, 600}

ChartInit ==
    /\ mounted = "no"
    /\ observing = FALSE
    /\ raf = 0
    /\ frameQueue = {}
    /\ nextHandle = 1
    /\ clientWidth \in Widths
    /\ dataVersion = 1
    /\ events = 0
    /\ lastTick = [events |-> 0, called |-> 0, renders |-> 0, alive |-> FALSE,
                   width |-> 0, data |-> 0, drawn |-> <<>>]
    /\ renders = 0

\* if (raf) cancelAnimationFrame(raf), line 92; raf is null (0 here) or a handle,
\* and cancelling a handle that already ran does nothing
KeepFrame(queue, handle) == queue
CancelFrame(queue, handle) == IF handle # 0 THEN queue \ {handle} ELSE queue

\* scheduleRender, lines 91-94
ScheduleRender ==
    /\ nextHandle <= MaxHandles
    /\ frameQueue' = CancelFrame(frameQueue, raf) \cup {nextHandle}
    /\ raf' = nextHandle
    /\ nextHandle' = nextHandle + 1
    /\ events' = events + 1

\* const width = chartRef.value.clientWidth || 800, line 98
RenderWidth(w) == IF w = 0 THEN FallbackWidth ELSE w

\* render, lines 96-160: what it draws is decided by the width and the data it reads
Render(w, d) == [width |-> RenderWidth(w), data |-> d]

\* onMounted, lines 162-168
ChartMount ==
    /\ mounted = "no"
    /\ mounted' = "yes"
    /\ observing' = TRUE
    /\ ScheduleRender
    /\ UNCHANGED <<clientWidth, dataVersion, lastTick, renders>>
    /\ UNCHANGED <<sanVars, panelVars, netVars, colorVars>>

\* the ResizeObserver callback, lines 163-165, after the container took width w
Resize(w) ==
    /\ observing
    /\ w # clientWidth
    /\ clientWidth' = w
    /\ ScheduleRender
    /\ UNCHANGED <<mounted, observing, dataVersion, lastTick, renders>>
    /\ UNCHANGED <<sanVars, panelVars, netVars, colorVars>>

\* watch(() => [props.nodes, props.links], ...), lines 175-177
DataChange ==
    /\ mounted = "yes"
    /\ dataVersion < MaxData
    /\ dataVersion' = dataVersion + 1
    /\ ScheduleRender
    /\ UNCHANGED <<mounted, observing, clientWidth, lastTick, renders>>
    /\ UNCHANGED <<sanVars, panelVars, netVars, colorVars>>

\* The browser's rendering tick: every pending callback runs once. render returns
\* at line 97 when the refs are gone, that is after the unmount.
Tick ==
    /\ mounted # "no"
    /\ LET ran   == IF mounted = "yes" THEN Cardinality(frameQueue) ELSE 0
           drawn == [i \in 1..ran |-> Render(clientWidth, dataVersion)]
       IN /\ lastTick' = [events |-> events, called |-> Cardinality(frameQueue),
                          renders |-> ran,
                          alive |-> (mounted = "yes"),
                          width |-> clientWidth, data |-> dataVersion,
                          drawn |-> drawn]
          /\ renders' = renders + ran
    /\ frameQueue' = {}
    /\ events' = 0
    /\ UNCHANGED <<mounted, observing, raf, nextHandle, clientWidth, dataVersion>>
    /\ UNCHANGED <<sanVars, panelVars, netVars, colorVars>>

\* onBeforeUnmount, lines 170-173
ChartUnmountDisconnectOnly ==
    /\ mounted = "yes"
    /\ mounted' = "gone"
    /\ observing' = FALSE
    /\ UNCHANGED <<raf, frameQueue, nextHandle, clientWidth, dataVersion, events,
                   lastTick, renders>>
    /\ UNCHANGED <<sanVars, panelVars, netVars, colorVars>>
ChartUnmount ==
    /\ mounted = "yes"
    /\ mounted' = "gone"
    /\ observing' = FALSE
    /\ frameQueue' = CancelFrame(frameQueue, raf)
    /\ UNCHANGED <<raf, nextHandle, clientWidth, dataVersion, events, lastTick,
                   renders>>
    /\ UNCHANGED <<sanVars, panelVars, netVars, colorVars>>

ChartNext ==
    \/ ChartMount
    \/ \E w \in Widths : Resize(w)
    \/ DataChange
    \/ Tick
    \/ ChartUnmount

(***************************************************************************)
(* colorFromId: part_000:75-83 and NetworkGraph.vue:72-80                  *)
(***************************************************************************)
MaxIdLen == 5       \* longest id drawn, in code units
MaxCalls == 2       \* calls of each adapter's colorFromId on the id

\* id.charCodeAt(i): "A", "z" and the largest code unit
CharCodes == {65, 122, 65535}

IdStrings == SeqsUpTo(CharCodes, MaxIdLen)

\* An id whose hash is -2^31, the one value whose Math.abs lies outside the
\* 32-bit range: 2324 * 31^4 + 38 * 31^3 + 90 * 31^2 + 71 * 31 + 95 = 2^31.
MinIntId == <<2324, 38, 90, 71, 95>>

\* `hash` is kept as a 32-bit word in two 16-bit halves, which is what `|= 0` and
\* `<<` make of it.
Half == 2^16
Word(hi, lo) == [hi |-> hi, lo |-> lo]

\* hash << 5
Shl5(w) ==
    LET low == w.lo * 32
    IN Word((w.hi * 32 + low \div Half) % Half, low % Half)

\* a - b and a + code, modulo 2^32: the value `|= 0` keeps of the exact result
SubWord(a, b) ==
    LET low    == a.lo - b.lo
        borrow == IF low < 0 THEN 1 ELSE 0
    IN Word((a.hi - b.hi - borrow + 2 * Half) % Half, (low + Half) % Half)
AddCode(w, code) ==
    LET low == w.lo + code
    IN Word((w.hi + low \div Half) % Half, low % Half)

\* hash = (hash << 5) - hash + id.charCodeAt(i); hash |= 0
HashStep(w, code) == AddCode(SubWord(Shl5(w), w), code)

IsNegative(w) == w.hi >= Half \div 2

\* Math.abs(hash) as an unsigned word: |-2^31| is 2^31
Magnitude(w) == IF IsNegative(w) THEN SubWord(Word(0, 0), w) ELSE w

\* x % 360 for a non-negative x given as a word
Mod360(w) == ((w.hi % 360) * (Half % 360) + w.lo) % 360

\* `hsl(${hue}, 80%, 60%)`
Hsl(hue, s, l) == [hue |-> hue, saturation |-> s, lightness |-> l]

\* SankeyChart.vue: the for loop and colorFromId
RECURSIVE SankeyHash(_)
SankeyHash(id) ==
    IF id = <<>> THEN Word(0, 0)
    ELSE HashStep(SankeyHash(SubSeq(id, 1, Len(id) - 1)), id[Len(id)])

SankeyColorNoAbs(id) ==
    LET w == SankeyHash(id)
    IN Hsl(IF IsNegative(w) THEN 0 - Mod360(Magnitude(w)) ELSE Mod360(w), 80, 60)
SankeyColorFromId(id) == Hsl(Mod360(Magnitude(SankeyHash(id))), 80, 60)

\* NetworkGraph.vue: the for loop and colorFromId
RECURSIVE NetworkHash(_)
NetworkHash(id) ==
    IF id = <<>> THEN Word(0, 0)
    ELSE HashStep(NetworkHash(SubSeq(id, 1, Len(id) - 1)), id[Len(id)])

\* hash % 360 without Math.abs: JavaScript's % keeps the sign of the dividend
NetworkColorNoAbs(id) ==
    LET w == NetworkHash(id)
    IN Hsl(IF IsNegative(w) THEN 0 - Mod360(Magnitude(w)) ELSE Mod360(w), 80, 60)
NetworkColorFromId(id) == Hsl(Mod360(Magnitude(NetworkHash(id))), 80, 60)

ColorInit(ids) ==
    /\ colorId \in ids
    /\ sankeyColor = <<>>
    /\ networkColor = <<>>

\* SankeyChart.vue paints a node or a link of that id, lines 129 and 147
SankeyPaint ==
    /\ Len(sankeyColor) < MaxCalls
    /\ sankeyColor' = Append(sankeyColor, SankeyColorFromId(colorId))
    /\ UNCHANGED <<colorId, networkColor>>
    /\ UNCHANGED <<sanVars, panelVars, chartVars, netVars>>

\* NetworkGraph.vue colours the node of that id, line 86
NetworkPaint ==
    /\ Len(networkColor) < MaxCalls
    /\ networkColor' = Append(networkColor, NetworkColorFromId(colorId))
    /\ UNCHANGED <<colorId, sankeyColor>>
    /\ UNCHANGED <<sanVars, panelVars, chartVars, netVars>>

ColorNext == SankeyPaint \/ NetworkPaint

(***************************************************************************)
(* NetworkGraph.vue: zoom, camera, teardown                                *)
(***************************************************************************)
\* Zoom values are kept in tenths: 0.3, 2.5, the step 0.1 and the initial 1.
ZoomMin  == 3
ZoomMax  == 25
ZoomStep == 1
ZoomOne  == 10

\* fg.cameraPosition({ z: 320 })
BaseDistance == 320

\* A camera distance is the fraction n/d.
Distance(n, d) == [n |-> n, d |-> d]
NoCamera       == Distance(0, 1)
Closer(a, b)   == a.n * b.d < b.n * a.d

\* 320 / zoomValue.value, with the zoom in tenths
ZoomDistance(zoom) == Distance(BaseDistance * 10, zoom)

\* what ForceGraph3D()(element) returns: an instance that may or may not expose
\* destroy (destroy?: in the type), with its animation loop running and its
\* rendering context in the element
Instance(hasDestroy) ==
    [destroy |-> hasDestroy, animating |-> TRUE, context |-> TRUE, inDom |-> TRUE]
NoInstance ==
    [destroy |-> FALSE, animating |-> FALSE, context |-> FALSE, inDom |-> FALSE]

IsLive(fg) == fg # NoInstance

NoOp == [op |-> "none", zoomFrom |-> ZoomOne, from |-> NoCamera, to |-> NoCamera]

\* ---- the data handed to the simulation ----
MaxNetData == 2     \* props replacements seen by watch(graphData)

\* Ids and labels are sequences of UTF-16 code units.
IdA == <<65>>
IdB == <<66>>
IdC == <<67>>
LongLabel == <<76, 111, 110, 103, 76, 97, 98, 101, 108, 49, 49>>
Ellipsis  == 8230

NetNode(i, label, v) == [id |-> i, label |-> label, value |-> v]
NetLink(s, t, v)     == [source |-> s, target |-> t, value |-> v]

\* The graphs the panel passes down: none; one edge; a graph with a self-loop, a
\* two-cycle and a parallel link, not in value order, whose labels are long or
\* empty; a graph whose link ends at a node that is not listed.
NetGraphs ==
    { [nodes |-> <<>>, links |-> <<>>],
      [nodes |-> <<NetNode(IdB, IdB, 5), NetNode(IdC, IdC, 5)>>,
       links |-> <<NetLink(IdB, IdC, 5)>>],
      [nodes |-> <<NetNode(IdC, <<>>, 2), NetNode(IdA, LongLabel, 4)>>,
       links |-> <<NetLink(IdC, IdC, 2), NetLink(IdA, IdB, 1),
                   NetLink(IdB, IdA, 3), NetLink(IdA, IdB, 1)>>],
      [nodes |-> <<NetNode(IdA, IdA, 1)>>,
       links |-> <<NetLink(IdA, IdC, 1)>>] }

EmptyProps == [nodes |-> <<>>, links |-> <<>>]

\* truncateLabel, lines 34-37
TruncateLabel(label) ==
    IF label = <<>> THEN <<>>
    ELSE IF Len(label) > 10 THEN Append(SubSeq(label, 1, 10), Ellipsis)
    ELSE label

\* graphData, lines 82-89: props.nodes.map(...) and props.links.map(...)
GraphNodes(ns) ==
    [i \in 1..Len(ns) |->
        [id |-> ns[i].id, label |-> ns[i].label, value |-> ns[i].value,
         shortLabel |-> TruncateLabel(IF ns[i].label # <<>> THEN ns[i].label
                                      ELSE ns[i].id),
         color |-> NetworkColorFromId(ns[i].id)]]

GraphLinksNoSelfLoops(ls) ==
    SelectSeq(ls, LAMBDA l : l.source # l.target)
GraphLinks(ls) ==
    [i \in 1..Len(ls) |->
        [source |-> ls[i].source, target |-> ls[i].target, value |-> ls[i].value]]

GraphData(p) == [nodes |-> GraphNodes(p.nodes), links |-> GraphLinks(p.links)]

\* applyGraphData, lines 91-94: the simulation is called with graphData.value
ApplyGraphData(fg, log, p) ==
    IF fg = NoInstance THEN log ELSE Append(log, GraphData(p))

NetPropsInit(graphs) ==
    /\ netProps \in graphs
    /\ simLog = <<>>

NetInit ==
    /\ netMounted = "no"
    /\ fgInstance = NoInstance
    /\ zoomValue = ZoomOne
    /\ camera = NoCamera
    /\ lastOp = NoOp

\* onMounted -> initializeGraph, lines 96-116 and 135-137
InitializeGraph(hasDestroy) ==
    /\ netMounted = "no"
    /\ netMounted' = "yes"
    /\ fgInstance' = Instance(hasDestroy)
    /\ camera' = Distance(BaseDistance, 1)
    /\ lastOp' = [op |-> "init", zoomFrom |-> zoomValue, from |-> camera, to |-> camera']
    /\ simLog' = ApplyGraphData(fgInstance', simLog, netProps)
    /\ UNCHANGED <<zoomValue, netProps>>
    /\ UNCHANGED <<sanVars, panelVars, chartVars, colorVars>>

\* Math.min(2.5, zoomValue.value + 0.1), Math.max(0.3, zoomValue.value - 0.1)
ZoomedInNoClamp(zoom) == zoom + ZoomStep
ZoomedIn(zoom)  == Min(ZoomMax, zoom + ZoomStep)
ZoomedOutWrongSign(zoom) == Max(ZoomMin, zoom + ZoomStep)
ZoomedOut(zoom) == Max(ZoomMin, zoom - ZoomStep)

\* zoomIn, lines 118-122
zoomIn ==
    /\ netMounted = "yes"
    /\ IF ~IsLive(fgInstance)
       THEN UNCHANGED <<zoomValue, camera>>
       ELSE /\ zoomValue' = ZoomedIn(zoomValue)
            /\ camera' = ZoomDistance(zoomValue')
    /\ lastOp' = [op |-> "zoomIn", zoomFrom |-> zoomValue, from |-> camera, to |-> camera']
    /\ UNCHANGED <<netMounted, fgInstance, netProps, simLog>>
    /\ UNCHANGED <<sanVars, panelVars, chartVars, colorVars>>

\* zoomOut, lines 124-128
zoomOut ==
    /\ netMounted = "yes"
    /\ IF ~IsLive(fgInstance)
       THEN UNCHANGED <<zoomValue, camera>>
       ELSE /\ zoomValue' = ZoomedOut(zoomValue)
            /\ camera' = ZoomDistance(zoomValue')
    /\ lastOp' = [op |-> "zoomOut", zoomFrom |-> zoomValue, from |-> camera, to |-> camera']
    /\ UNCHANGED <<netMounted, fgInstance, netProps, simLog>>
    /\ UNCHANGED <<sanVars, panelVars, chartVars, colorVars>>

\* the camera after resetView: fgInstance.value?.cameraPosition({ z: 320 })
ResetKeepsCamera(fg, cam) == cam
ResetCamera(fg, cam) == IF IsLive(fg) THEN Distance(BaseDistance, 1) ELSE cam

\* resetView, lines 130-133
resetView ==
    /\ netMounted = "yes"
    /\ zoomValue' = ZoomOne
    /\ camera' = ResetCamera(fgInstance, camera)
    /\ lastOp' = [op |-> "reset", zoomFrom |-> zoomValue, from |-> camera, to |-> camera']
    /\ UNCHANGED <<netMounted, fgInstance, netProps, simLog>>
    /\ UNCHANGED <<sanVars, panelVars, chartVars, colorVars>>

\* instance.destroy(): the library stops its animation loop and gives up what it
\* rendered into
Destroyed(fg) == [fg EXCEPT !.animating = FALSE, !.context = FALSE, !.inDom = FALSE]

\* graphRef.value.innerHTML = '': the canvas leaves the document; the instance
\* is not called
Emptied(fg) == [fg EXCEPT !.inDom = FALSE]

\* onBeforeUnmount, lines 139-145
Teardown ==
    /\ netMounted = "yes"
    /\ netMounted' = "gone"
    /\ fgInstance' = IF IsLive(fgInstance) /\ fgInstance.destroy
                     THEN Destroyed(fgInstance)
                     ELSE Emptied(fgInstance)
    /\ lastOp' = [op |-> "teardown", zoomFrom |-> zoomValue, from |-> camera, to |-> camera]
    /\ UNCHANGED <<zoomValue, camera, netProps, simLog>>
    /\ UNCHANGED <<sanVars, panelVars, chartVars, colorVars>>

\* The parent passes a new graph: graphData is recomputed and watch(graphData,
\* applyGraphData), line 147, runs its callback.
PropsChange(g) ==
    /\ netMounted = "yes"
    /\ Len(simLog) <= MaxNetData
    /\ g # netProps
    /\ netProps' = g
    /\ simLog' = ApplyGraphData(fgInstance, simLog, g)
    /\ lastOp' = [op |-> "data", zoomFrom |-> zoomValue, from |-> camera, to |-> camera]
    /\ UNCHANGED <<netMounted, fgInstance, zoomValue, camera>>
    /\ UNCHANGED <<sanVars, panelVars, chartVars, colorVars>>

NetNext ==
    \/ \E hasDestroy \in BOOLEAN : InitializeGraph(hasDestroy)
    \/ \E g \in NetGraphs : PropsChange(g)
    \/ zoomIn
    \/ zoomOut
    \/ resetView
    \/ Teardown

(***************************************************************************)
(* Specifications                                                          *)
(***************************************************************************)
\* the props of a chart that is not under study: an empty graph
NoInput == [nodes |-> <<>>, links |-> <<>>, budget |-> MAX_LINKS]

\* a component that is not under study stays as constructed
Idle == PanelInit /\ ChartInit /\ clientWidth = 0 /\ NetInit
           /\ NetPropsInit({EmptyProps}) /\ ColorInit({<<>>})

Init == SanInit(Inputs) /\ Idle
Next == StartRun \/ LoopStep \/ Finish
Spec == Init /\ [][Next]_vars

\* The computed is synchronous code: once it is entered, the loop and the return
\* run to completion without yielding.
\* Its inputs: lists over a cycle A->B->C->A, a link back, a parallel link and a
\* self-loop, with every budget.
LiveLinkUniverse ==
    { Link("A", "B", 2), Link("B", "C", 2), Link("C", "A", 1),
      Link("B", "A", 1), Link("A", "B", 1), Link("A", "A", 2) }

LiveInputs ==
    {[nodes |-> <<Node("A"), Node("B"), Node("C")>>, links |-> l, budget |-> k] :
        l \in SeqsUpTo(LiveLinkUniverse, MaxLen), k \in Budgets}

LiveInit == SanInit(LiveInputs) /\ Idle
LiveSpec == LiveInit /\ [][Next]_vars /\ WF_vars(LoopStep) /\ WF_vars(Finish)

PanelSpecInit == SanInit({NoInput}) /\ Idle
PanelSpec     == PanelSpecInit /\ [][PanelNext]_vars

\* The fetch cycle of the panel: the steps that start or finish a request. The
\* view toggle and the v-model controls write neither loading nor a request.
FetchCycleNext ==
    \/ Mount
    \/ \E list \in SUBSET Segments : SegmentsLoaded(list)
    \/ SegmentsFailed
    \/ \E seg \in Segments : SegmentChange(seg)
    \/ Refresh
    \/ \E req \in inflight, kind \in BodyKinds : FetchOk(req, kind)
    \/ \E req \in inflight : FetchFail(req)

\* the promise of request id settles: fetchGraph resumes in its try or its catch
Resolves(id) ==
    \E req \in inflight :
        /\ req.id = id
        /\ (FetchFail(req) \/ \E kind \in BodyKinds : FetchOk(req, kind))

\* Every request that was issued is answered or fails in the end.
PanelLiveSpec ==
    /\ PanelSpecInit
    /\ [][FetchCycleNext]_vars
    /\ \A id \in 1..MaxFetches : WF_vars(Resolves(id))

ChartSpecInit == SanInit({NoInput}) /\ PanelInit /\ ChartInit /\ NetInit
                    /\ NetPropsInit({EmptyProps}) /\ ColorInit({<<>>})
ChartSpec     == ChartSpecInit /\ [][ChartNext]_vars

NetSpecInit == SanInit({NoInput}) /\ PanelInit /\ ChartInit /\ clientWidth = 0
                  /\ NetInit /\ NetPropsInit(NetGraphs) /\ ColorInit({<<>>})
NetSpec     == NetSpecInit /\ [][NetNext]_vars

ColorSpecInit == SanInit({NoInput}) /\ PanelInit /\ ChartInit /\ clientWidth = 0
                    /\ NetInit /\ NetPropsInit({EmptyProps})
                    /\ ColorInit(IdStrings \cup {MinIntId})
ColorSpec     == ColorSpecInit /\ [][ColorNext]_vars

(***************************************************************************)
(* Properties of sankeyData (checked under Spec)                           *)
(***************************************************************************)
\* A cycle-detection pass that does not use hasPath: the transitive closure of the
\* edge relation has no reflexive pair.
EdgesOf(ls) == {<<ls[i].source, ls[i].target>> : i \in 1..Len(ls)}

RECURSIVE Closure(_)
Closure(R) ==
    LET joins == {pq \in R \X R : pq[1][2] = pq[2][1]}
        next  == R \cup {<<pq[1][1], pq[2][2]>> : pq \in joins}
    IN IF next = R THEN R ELSE Closure(next)

HasCycle(ls) == \E e \in Closure(EdgesOf(ls)) : e[1] = e[2]

IsCandidate(l) == l.source # "" /\ l.target # "" /\ l.source # l.target

\* some candidate of the truncated list was turned down by the path check
SomeRejected ==
    \E i \in 1..Len(sortedLinks) :
        IsCandidate(sortedLinks[i]) /\ ~InSeq(sortedLinks[i], out.links)

\* C1: the accepted links contain no directed cycle, after every step of the
\* greedy pass and in the value returned.
C1_Acyclic == ~HasCycle(acyclicLinks) /\ ~HasCycle(out.links)

\* C1 witness: a run is over in which a cycle-closing candidate was turned down
\* and at least two links were accepted.
C1_Witness == pc = "done" /\ SomeRejected /\ Len(out.links) >= 2

NonSelfLoops(ls) == SelectSeq(ls, LAMBDA l : l.source # l.target)

\* C2: the number of links returned is at most min(K, number of input links that
\* are not self-loops).
C2_Budget == Len(out.links) <= Min(budget, Len(NonSelfLoops(links)))

\* C2 witness: the budget binds: more non-self-loop links than K came in and
\* exactly K were returned.
C2_Witness ==
    pc = "done" /\ Len(NonSelfLoops(links)) > budget /\ Len(out.links) = budget

\* C3: every returned node id is an endpoint of a returned link, and every
\* endpoint of a returned link is the id of a returned node.
C3_NodeConsistency ==
    pc = "done" =>
        /\ \A i \in 1..Len(out.nodes) : out.nodes[i].id \in NodeIds(out.links)
        /\ \A e \in NodeIds(out.links) :
              \E i \in 1..Len(out.nodes) : out.nodes[i].id = e

\* C4: every evaluation of the computed on the same props returns the same value,
\* nodes and links in the same order, and every evaluation starts from an empty
\* adjacency and an empty accepted list.
C4_Deterministic ==
    /\ \A i \in 1..Len(history), j \in 1..Len(history) : history[i] = history[j]
    /\ (pc = "loop" /\ idx = 1) =>
          (adjacency = EmptyAdjacency /\ acyclicLinks = <<>>)

\* C4 witness: two evaluations are over, links were accepted and one was rejected.
C4_Witness == Len(history) = 2 /\ SomeRejected /\ out.links # <<>>

\* C5: no link with source equal to target is accepted or returned.
C5_NoSelfLoop ==
    /\ \A i \in 1..Len(out.links) : out.links[i].source # out.links[i].target
    /\ \A i \in 1..Len(acyclicLinks) :
          acyclicLinks[i].source # acyclicLinks[i].target

\* C5 witness: a self-loop of the highest value was the first candidate of the
\* truncated list, and the run returned other links.
C5_Witness ==
    /\ pc = "done"
    /\ sortedLinks # <<>>
    /\ sortedLinks[1].source = sortedLinks[1].target
    /\ sortedLinks[1].source # ""
    /\ out.links # <<>>

IsScenario == nodes = Scenario.nodes /\ links = Scenario.links /\ budget = Scenario.budget

\* C6: on the worked scenario the links are processed in input order, A->B and
\* B->C are accepted, C->A is rejected, A->C is accepted, and the value returned is
\* links A->B, B->C, A->C with nodes A, B, C.
C6_Scenario ==
    IsScenario =>
        LET ab == Link("A", "B", 10)
            bc == Link("B", "C", 8)
            ac == Link("A", "C", 3)
        IN /\ pc # "idle" => sortedLinks = Scenario.links
           /\ (pc = "loop" /\ idx = 2) => acyclicLinks = <<ab>>
           /\ (pc = "loop" /\ idx = 3) => acyclicLinks = <<ab, bc>>
           /\ (pc = "loop" /\ idx = 4) => acyclicLinks = <<ab, bc>>
           /\ (pc = "loop" /\ idx = 5) => acyclicLinks = <<ab, bc, ac>>
           /\ pc = "done" =>
                 out = [nodes |-> <<Node("A"), Node("B"), Node("C")>>,
                        links |-> <<ab, bc, ac>>]

\* C6 witness: the run on the scenario is over.
C6_Witness == IsScenario /\ pc = "done" /\ Len(out.links) = 3

\* The reference pass of the specification, section 3: over a list of links, a
\* link is kept unless it is no candidate or its target already reaches its source
\* through the links kept so far; reachability is read off the closure.
Reaches(ls, from, to) == <<from, to>> \in Closure(EdgesOf(ls))

RECURSIVE GreedyPass(_, _)
GreedyPass(ls, acc) ==
    IF ls = <<>> THEN acc
    ELSE LET l == Head(ls)
         IN IF ~IsCandidate(l) \/ Reaches(acc, l.target, l.source)
            THEN GreedyPass(Tail(ls), acc)
            ELSE GreedyPass(Tail(ls), Append(acc, l))

Candidates(ls) == SelectSeq(ls, IsCandidate)

\* C21: the value returned equals the greedy pass over the K highest-valued links
\* among those left once self-loops and links with an empty endpoint are
\* discarded: discarded links consume no budget.
C21_DiscardFirst ==
    pc = "done" =>
        out.links = GreedyPass(Slice(SortDesc(Candidates(links)), budget), <<>>)

\* C22: a step of the loop on a candidate u->v leaves the accepted list as it is
\* exactly when v reaches u through the links accepted so far, and otherwise
\* appends the link and puts v among the neighbours of u; in the value returned,
\* every candidate that was turned down would close a cycle.
C22_RejectIffPath ==
    /\ [][(pc = "loop" /\ idx' = idx + 1 /\ IsCandidate(sortedLinks[idx])) =>
             LET l == sortedLinks[idx]
             IN IF Reaches(acyclicLinks, l.target, l.source)
                THEN acyclicLinks' = acyclicLinks /\ adjacency' = adjacency
                ELSE /\ acyclicLinks' = Append(acyclicLinks, l)
                     /\ InSeq(l.target, adjacency'[l.source])]_vars
    /\ [](pc = "done" =>
             \A i \in 1..Len(sortedLinks) :
                 (IsCandidate(sortedLinks[i]) /\ ~InSeq(sortedLinks[i], out.links))
                     => HasCycle(Append(out.links, sortedLinks[i])))

\* C22 witness: the third candidate was turned down because its target reaches
\* its source in two steps, through both accepted links.
C22_Witness ==
    /\ pc = "done"
    /\ Len(sortedLinks) = 3
    /\ out.links = SubSeq(sortedLinks, 1, 2)
    /\ IsCandidate(sortedLinks[3])
    /\ <<sortedLinks[3].target, sortedLinks[3].source>> \notin EdgesOf(out.links)
    /\ Reaches(out.links, sortedLinks[3].target, sortedLinks[3].source)

\* rank of the i-th input link by value: links of a greater value come first, then
\* earlier links of the same value
Rank(ls, i) ==
    Cardinality({j \in 1..Len(ls) :
                    \/ ls[j].value > ls[i].value
                    \/ (ls[j].value = ls[i].value /\ j < i)}) + 1

Ranked(ls) == [r \in 1..Len(ls) |-> ls[CHOOSE i \in 1..Len(ls) : Rank(ls, i) = r]]

RECURSIVE IsSubseq(_, _)
IsSubseq(a, b) ==
    IF a = <<>> THEN TRUE
    ELSE IF b = <<>> THEN FALSE
    ELSE IF Head(a) = Head(b) THEN IsSubseq(Tail(a), Tail(b))
    ELSE IsSubseq(a, Tail(b))

\* C23: the links returned are drawn from the links of rank 1..K only.
C23_BeyondBudgetNeverOut ==
    pc = "done" =>
        IsSubseq(out.links, SubSeq(Ranked(links), 1, Min(budget, Len(links))))

\* C23 witness: fewer than K links were returned because a candidate was turned
\* down, and a link of rank beyond K that would close no cycle was left out.
C23_Witness ==
    /\ pc = "done"
    /\ Len(out.links) < budget
    /\ SomeRejected
    /\ \E i \in 1..Len(links) :
          /\ Rank(links, i) > budget
          /\ IsCandidate(links[i])
          /\ ~InSeq(links[i], out.links)
          /\ ~HasCycle(Append(out.links, links[i]))

NonIncreasing(ls) == \A i \in 1..(Len(ls) - 1) : ls[i].value >= ls[i + 1].value

WithValue(ls, v) == SelectSeq(ls, LAMBDA l : l.value = v)

IsPrefix(a, b) == Len(a) <= Len(b) /\ SubSeq(b, 1, Len(a)) = a

\* C24: the truncated list, the accepted list and the links returned are in order
\* of non-increasing value, the accepted links follow the order of the truncated
\* list, and links of one value stand in their order of the input.
C24_ValueOrder ==
    pc # "idle" =>
        /\ NonIncreasing(sortedLinks)
        /\ NonIncreasing(acyclicLinks)
        /\ NonIncreasing(out.links)
        /\ pc = "loop" => IsSubseq(acyclicLinks, SubSeq(sortedLinks, 1, idx - 1))
        /\ \A i \in 1..Len(links) :
              LET v == links[i].value
              IN /\ IsPrefix(WithValue(sortedLinks, v), WithValue(links, v))
                 /\ IsSubseq(WithValue(acyclicLinks, v), WithValue(links, v))
                 /\ IsSubseq(WithValue(out.links, v), WithValue(links, v))

\* C24 witness: the input begins with its smallest link, followed by two different
\* links of one greater value; the two are returned first, in input order.
C24_Witness ==
    /\ pc = "done"
    /\ Len(links) = 3
    /\ links[1].value < links[2].value
    /\ links[2].value = links[3].value
    /\ links[2] # links[3]
    /\ out.links = <<links[2], links[3], links[1]>>

SamePair(a, b) == a.source = b.source /\ a.target = b.target

CountPair(ls, l) == Len(SelectSeq(ls, LAMBDA x : SamePair(x, l)))

\* C25: when a link of an ordered pair (source, target) is returned, every link
\* of that pair within the budget is returned.
C25_ParallelKept ==
    pc = "done" =>
        \A i \in 1..Len(out.links) :
            CountPair(out.links, out.links[i]) = CountPair(sortedLinks, out.links[i])

\* C25 witness: two links of one pair were returned with a link of another pair
\* between them.
C25_Witness ==
    /\ pc = "done"
    /\ Len(out.links) = 3
    /\ SamePair(out.links[1], out.links[3])
    /\ ~SamePair(out.links[1], out.links[2])

NoRepeats(s) == \A i \in 1..Len(s), j \in 1..Len(s) : s[i] = s[j] => i = j

\* C26: every evaluation that entered the loop returns; the search run for a
\* candidate marks no node twice; an empty link list returns no nodes and no
\* links.
C26_Terminates ==
    /\ [](/\ (pc = "loop" /\ idx <= Len(sortedLinks)
                 /\ sortedLinks[idx].source # "" /\ sortedLinks[idx].target # "") =>
               LET seen == HasPathVisits(adjacency, sortedLinks[idx].target,
                                         sortedLinks[idx].source)
               IN NoRepeats(seen) /\ Len(seen) <= Cardinality(Ids)
          /\ (pc = "done" /\ links = <<>>) => out = NoOutput)
    /\ (pc = "loop") ~> (pc = "done")

\* C26 witness: an evaluation returned on an input that holds a cycle, a
\* self-loop among its links and nodes to filter.
C26_Witness ==
    /\ pc = "done"
    /\ HasCycle(NonSelfLoops(links))
    /\ \E i \in 1..Len(links) : links[i].source = links[i].target
    /\ out.links # <<>>

(***************************************************************************)
(* Properties of the panel (checked under PanelSpec)                       *)
(***************************************************************************)
Outcome(id) ==
    IF \E d \in settled : d.id = id
    THEN (CHOOSE d \in settled : d.id = id).outcome
    ELSE "pending"

\* C7: once an earlier and a later fetch have both delivered their responses,
\* graph holds the response of the most recently initiated request.
C7_LatestWins ==
    (/\ issued >= 2
     /\ Outcome(issued) = "ok"
     /\ \E id \in 1..(issued - 1) : Outcome(id) = "ok")
        => graph.req = issued

\* C8: a step that changes chartView starts no fetch and leaves graph, loading,
\* error and the selection as they were.
C8_TogglePure ==
    [][chartView' # chartView =>
          UNCHANGED <<graph, loading, error, inflight, issued, settled,
                      selectedSegment, segments, segPc>>]_vars

\* C8 witness: the sankey view is shown over a fetched graph.
C8_Witness == chartView = "sankey" /\ graph # NoGraph /\ inflight = {} /\ ~loading

Failed(before, after) == {d \in after \ before : d.outcome = "fail"}

\* C10: a step in which a fetch fails while a graph is held leaves graph as it
\* was; of the panel's state only error and loading change.
C10_FailKeepsGraph ==
    [][(graph # NoGraph /\ Failed(settled, settled') # {}) =>
          /\ graph' = graph
          /\ error' # NULL
          /\ ~loading'
          /\ UNCHANGED <<chartView, selectedSegment, segments, segPc, issued>>]_vars

\* C10 witness: a fetch has failed while a graph was held, and the graph is held.
C10_Witness ==
    /\ graph # NoGraph
    /\ error # NULL
    /\ \E d \in settled : d.outcome = "fail" /\ d.before # NoGraph /\ d.before = graph

\* C11: in the error state left by a failed fetch, with a non-empty graph fetched
\* before it still held, the graph adapter is mounted beside the error banner.
C11_StaleButShown ==
    (/\ error = FetchError
     /\ ~loading
     /\ graph.kind = "links"
     /\ \E d \in settled : d.outcome = "fail" /\ d.before = graph)
        => PanelBody \in Adapters

Succeeded(before, after) == {d \in after \ before : d.outcome = "ok"}

\* C12: a step in which a fetch succeeds leaves graph equal to that response and
\* error equal to null, whatever other fetches are in flight or have finished.
C12_SuccessClearsError ==
    [][\A d \in Succeeded(settled, settled') :
          graph'.req = d.id /\ error' = NULL]_vars

ControlChanged ==
    \/ selectedSegment' # selectedSegment
    \/ dateRange' # dateRange
    \/ limit' # limit
    \/ minEdge' # minEdge

\* C13: every change of a control made while a segment is selected starts a new
\* fetch and sets loading, and the step that loads a non-empty segment list selects
\* the default (else the first) segment and starts the first fetch.
C13_ControlsFetch ==
    [][/\ (segPc = "done" /\ selectedSegment # "" /\ ControlChanged) =>
             (issued' = issued + 1 /\ loading')
       /\ (segPc = "pending" /\ segPc' = "done" /\ segments' # {}) =>
             (selectedSegment' \in segments' /\ issued' = 1 /\ loading')]_vars

\* C19: with a body held whose nodes or links are missing or no array, no error
\* and no fetch loading, the panel mounts the no-data state and no adapter.
C19_MalformedIsEmpty ==
    (graph.kind \in {"no-links", "no-nodes"} /\ error = NULL /\ ~loading)
        => PanelBody = "el-empty"

\* C29: loading is true whenever a graph fetch is in flight.
C29_LoadingWhileInFlight == inflight # {} => loading

\* C30: every request in flight is settled in the end; the step that settles a
\* request, by success or by failure, leaves loading false; with no request in
\* flight the panel is not loading and shows the banner, an adapter or the
\* no-data state.
C30_LeavesLoading ==
    /\ \A id \in 1..MaxFetches :
          (\E r \in inflight : r.id = id) ~> (Outcome(id) # "pending")
    /\ loading ~> ~loading
    /\ [][settled' # settled => ~loading']_vars
    /\ [](inflight = {} => (~loading /\ PanelBody # "skeleton"))

\* C30 witness: a request was answered, another failed, none is in flight and
\* the panel is not loading.
C30_Witness ==
    /\ inflight = {}
    /\ ~loading
    /\ \E d \in settled : d.outcome = "ok"
    /\ \E d \in settled : d.outcome = "fail"

(***************************************************************************)
(* Properties of the scheduler (checked under ChartSpec)                   *)
(***************************************************************************)
\* C9: at most one animation-frame callback is pending at any moment, and a tick of
\* the mounted chart that follows N >= 1 scheduleRender calls runs render exactly
\* once, on the container width and the data current at the tick.
C9_Coalesced ==
    /\ Cardinality(frameQueue) <= 1
    /\ (lastTick.alive /\ lastTick.events >= 1) =>
          /\ lastTick.renders = 1
          /\ lastTick.drawn = <<Render(lastTick.width, lastTick.data)>>

\* C9 witness: a tick ran after a burst of three requests, the last of which
\* followed a resize and a data change.
C9_Witness ==
    /\ lastTick.alive
    /\ lastTick.events >= 3
    /\ lastTick.renders = 1
    /\ lastTick.data = 2
    /\ lastTick.width = 600


\* C17: once the chart is torn down no animation-frame callback is pending and
\* the observer is disconnected, so a tick after the teardown calls render not
\* once, whatever was scheduled before.
C17_TeardownCancels ==
    /\ mounted = "gone" => (frameQueue = {} /\ ~observing)
    /\ (mounted = "gone" /\ ~lastTick.alive) =>
          (lastTick.called = 0 /\ lastTick.renders = 0)

\* C17 witness: the chart was torn down while a burst of requests was pending,
\* and a tick has passed since.
C17_Witness ==
    /\ mounted = "gone"
    /\ ~lastTick.alive
    /\ lastTick.events >= 2
    /\ lastTick.called = 0

(***************************************************************************)
(* Properties of the 3-D network (checked under NetSpec)                   *)
(***************************************************************************)
\* C14: the zoom factor stays within [0.3, 2.5]; it is 1.0 before any operation
\* and right after every resetView.
C14_ZoomRange ==
    /\ zoomValue \in ZoomMin..ZoomMax
    /\ lastOp.op \in {"none", "init", "reset"} => zoomValue = ZoomOne

\* C14 witness: zoomIn was pressed at 2.5 and the zoom is still 2.5.
C14_Witness ==
    lastOp.op = "zoomIn" /\ lastOp.zoomFrom = ZoomMax /\ zoomValue = ZoomMax

\* C15: once the instance exists, the camera distance is 320 / zoom after every
\* operation; after resetView it is 320 with zoom 1.0.
C15_CameraFollowsZoom ==
    IsLive(fgInstance) =>
        /\ camera.n * zoomValue = BaseDistance * ZoomOne * camera.d
        /\ lastOp.op = "reset" =>
              (camera = Distance(BaseDistance, 1) /\ zoomValue = ZoomOne)

\* C15 witness: resetView was pressed at a zoom other than 1.0.
C15_Witness ==
    /\ lastOp.op = "reset"
    /\ lastOp.zoomFrom # ZoomOne
    /\ camera = Distance(BaseDistance, 1)

\* C16, as claimed: every zoomIn brings the camera closer and every zoomOut moves
\* it away, at every zoom value of [0.3, 2.5].
C16_ZoomMovesCamera ==
    /\ lastOp.op = "zoomIn" => Closer(lastOp.to, lastOp.from)
    /\ lastOp.op = "zoomOut" => Closer(lastOp.from, lastOp.to)

\* C16, amended: a zoomIn below 2.5 brings the camera closer and a zoomOut above
\* 0.3 moves it away; zoomIn at 2.5 and zoomOut at 0.3 leave the distance as it is.
C16_ZoomMovesCameraInside ==
    /\ lastOp.op = "zoomIn" =>
          IF lastOp.zoomFrom < ZoomMax
          THEN Closer(lastOp.to, lastOp.from)
          ELSE lastOp.to = lastOp.from
    /\ lastOp.op = "zoomOut" =>
          IF lastOp.zoomFrom > ZoomMin
          THEN Closer(lastOp.from, lastOp.to)
          ELSE lastOp.to = lastOp.from

\* C16 witness: zoomOut was pressed at 0.3 and the distance did not change.
C16_Witness ==
    lastOp.op = "zoomOut" /\ lastOp.zoomFrom = ZoomMin /\ lastOp.to = lastOp.from

\* C18: after the teardown of an adapter that holds an instance, the rendering
\* context is disposed of and the animation loop is stopped, whether or not the
\* instance exposes destroy.
C18_TeardownReleases ==
    (netMounted = "gone" /\ IsLive(fgInstance)) =>
        (~fgInstance.animating /\ ~fgInstance.context)

\* C27: while the adapter is mounted, the last graph handed to the simulation
\* has the links of the current props, all of them and in their order, and the
\* nodes of the current props and no other: nothing of an earlier graph is left.
C27_RawHandover ==
    (netMounted = "yes" /\ IsLive(fgInstance)) =>
        /\ simLog # <<>>
        /\ LET given == simLog[Len(simLog)]
           IN /\ given.links = netProps.links
              /\ Len(given.nodes) = Len(netProps.nodes)
              /\ \A i \in 1..Len(given.nodes) : given.nodes[i].id = netProps.nodes[i].id

\* C27 witness: a graph with a self-loop and a cycle was handed over after a
\* graph with other links, and holds none of them.
C27_Witness ==
    /\ netMounted = "yes"
    /\ Len(simLog) >= 2
    /\ LET given  == simLog[Len(simLog)]
           before == simLog[Len(simLog) - 1]
       IN /\ before.links # <<>>
          /\ \A i \in 1..Len(before.links) : ~InSeq(before.links[i], given.links)
          /\ \E i \in 1..Len(given.links) : given.links[i].source = given.links[i].target
          /\ HasCycle(NonSelfLoops(given.links))

(***************************************************************************)
(* Properties of colorFromId (checked under ColorSpec)                     *)
(***************************************************************************)
\* C20: every call of either adapter's colorFromId on the same id returns the same
\* colour.
C20_SameColour ==
    \A a \in 1..Len(sankeyColor) :
        /\ \A b \in 1..Len(sankeyColor) : sankeyColor[a] = sankeyColor[b]
        /\ \A b \in 1..Len(networkColor) : sankeyColor[a] = networkColor[b]

\* C20 witness: both adapters coloured, twice each, an id whose hash is negative.
C20_Witness ==
    /\ Len(sankeyColor) = 2
    /\ Len(networkColor) = 2
    /\ IsNegative(SankeyHash(colorId))

\* C28: every colour either colorFromId returned has an integer hue of 0..359,
\* and the hue of the empty id is 0.
C28_HueRange ==
    /\ \A i \in 1..Len(sankeyColor) : sankeyColor[i].hue \in 0..359
    /\ \A i \in 1..Len(networkColor) : networkColor[i].hue \in 0..359
    /\ colorId = <<>> =>
          /\ \A i \in 1..Len(sankeyColor) : sankeyColor[i].hue = 0
          /\ \A i \in 1..Len(networkColor) : networkColor[i].hue = 0

\* C28 witness: both adapters coloured the id whose hash is -2^31; its hue is
\* 2^31 mod 360 = 128.
C28_Witness ==
    /\ SankeyHash(colorId) = Word(Half \div 2, 0)
    /\ sankeyColor # <<>>
    /\ networkColor # <<>>
    /\ sankeyColor[1].hue = 128
    /\ networkColor[1].hue = 128

=============================================================================
